---- MODULE Spec2Model ----
(***************************************************************************)
(* Model of the new-releases pipeline: scripts/main.py (main) and          *)
(* scripts/endpoint.py (get_paginated_new_releases).                       *)
(*                                                                         *)
(* Python values are modelled as follows.  A dict is a record whose        *)
(* DOMAIN is the set of keys present; d.get(k, default) is Get.  None and  *)
(* strings that the code tests for truth are tagged records (None, Str,    *)
(* Url).  A list is a sequence.  An exception that leaves main is          *)
(* pc = "raised" with its class name in error.                             *)
(***************************************************************************)
EXTENDS Integers, Sequences, FiniteSets, TLC

\* ------------------------------------------------------------------ bounds
\* The catalogue serves at most MaxPages pages: page MaxPages has no next link.
MaxPages == 2
\* The catalogue serves at most MaxAlbums album records over all its pages.
MaxAlbums == 2

\* ------------------------------------------------------------------ python values
None == [py |-> "NoneType"]
Str(s) == [py |-> "str", s |-> s]
EmptyStr == Str("")
\* The URL of catalogue page n (page 1 is URL_NEW_RELEASES).
Url(n) == [py |-> "str", page |-> n]
\* Python truth value of None / str, as tested by `while request_url:`.
Truthy(v) == v # None /\ v # EmptyStr
\* dict.get(key, default)
Get(d, key, default) == IF key \in DOMAIN d THEN d[key] ELSE default
\* The empty dict {}
EmptyDict == [k \in {} |-> None]
\* A response body that is not JSON: response.json() raises on it.
NotJson == [raw |-> "<html>"]

URL_NEW_RELEASES == Url(1)

\* ------------------------------------------------------------------ catalogue records
ar1 == [id |-> "ar1", name |-> "Bar", external_urls |-> [spotify |-> "u_ar1"]]
ar2 == [id |-> "ar2", name |-> "Baz", external_urls |-> [spotify |-> "u_ar2"]]
\* an artist record without "name"
arNoName == [id |-> "ar3", external_urls |-> [spotify |-> "u_ar3"]]

alTwo == [id |-> "al1", name |-> "Foo", release_date |-> "2024-01-01",
          external_urls |-> [spotify |-> "u_al1"], artists |-> <<ar1, ar2>>]
alOne == [id |-> "al2", name |-> "Qux", release_date |-> "2024-02-02",
          external_urls |-> [spotify |-> "u_al2"], artists |-> <<ar2>>]
\* complete album, no "artists" key
alNoArtistsKey == [id |-> "al3", name |-> "Solo", release_date |-> "2024-03-03",
                   external_urls |-> [spotify |-> "u_al3"]]
\* complete album, empty "artists" list
alEmptyArtists == [id |-> "al4", name |-> "Void", release_date |-> "2024-04-04",
                   external_urls |-> [spotify |-> "u_al4"], artists |-> <<>>]
\* album without "release_date" and with an empty "artists" list
alBareEmpty == [id |-> "al5", name |-> "Bare",
                external_urls |-> [spotify |-> "u_al5"], artists |-> <<>>]
\* complete album whose second artist lacks "name"
alBadArtist == [id |-> "al6", name |-> "Mix", release_date |-> "2024-06-06",
                external_urls |-> [spotify |-> "u_al6"], artists |-> <<ar1, arNoName>>]
\* album whose external_urls has no "spotify" key, one complete artist
alNoUrl == [id |-> "al7", name |-> "Link", release_date |-> "2024-07-07",
            external_urls |-> EmptyDict, artists |-> <<ar1>>]

AlbumPool == {alTwo, alOne, alNoArtistsKey, alEmptyArtists, alBareEmpty, alBadArtist, alNoUrl}
\* get_paginated_new_releases never looks inside an item: two distinct records
\* are enough to tell order and repetition.
OpaquePool == {alTwo, alOne}

\* All sequences over S of length at most n.
RECURSIVE SeqsUpTo(_, _)
SeqsUpTo(S, n) ==
    IF n <= 0 THEN {<<>>}
    ELSE LET shorter == SeqsUpTo(S, n - 1)
         IN  shorter \cup {Append(s, x) : s \in {t \in shorter : Len(t) = n - 1}, x \in S}

\* ------------------------------------------------------------------ the servers
\* Identity provider: a success carries access_token, a failure an error object;
\* either may carry a body that is not JSON.
TokenResponses ==
    { [status |-> 200, body |-> [access_token |-> Str("BQD"), token_type |-> "Bearer"]],
      [status |-> 401, body |-> [error |-> "invalid_client"]],
      [status |-> 200, body |-> NotJson],
      [status |-> 503, body |-> NotJson] }

\* The values the catalogue puts in "next" on page n.
NextValues(n) == {None, EmptyStr} \cup (IF n < MaxPages THEN {Url(n + 1)} ELSE {})

\* The "albums" objects of page n when the catalogue, whose records are those of
\* `pool`, has `room` records left.
AlbumsObjects(pool, n, room) ==
    LET items == SeqsUpTo(pool, room)
    IN       {[items |-> s, next |-> v] : s \in items, v \in NextValues(n)}
        \cup {[items |-> s] : s \in items}
        \cup {[next |-> v] : v \in NextValues(n)}
        \cup {EmptyDict}

\* What a GET of page n can answer.
CatalogResponses(pool, n, room) ==
         {[status |-> 200, body |-> [albums |-> a]] : a \in AlbumsObjects(pool, n, room)}
    \cup {[status |-> 200, body |-> EmptyDict], [status |-> 200, body |-> NotJson]}
    \cup {[status |-> s, body |-> b] :
            s \in {401, 429},
            b \in {NotJson, [error |-> "failed"],
                   [albums |-> [items |-> <<alOne>>, next |-> None]]}}

\* ------------------------------------------------------------------ endpoint.py
\* response_json.get("albums", {})
AlbumsOf(response_json) == Get(response_json, "albums", EmptyDict)
ItemsOf(response_json) == Get(AlbumsOf(response_json), "items", <<>>)
\* Variant: "next" read from the top level of the body instead of from "albums".
NextOfTopLevel(response_json) == Get(response_json, "next", None)
NextOf(response_json) == Get(AlbumsOf(response_json), "next", None)

\* xs without the elements that already occur in seen or earlier in xs.
RECURSIVE Unseen(_, _)
Unseen(xs, seen) ==
    IF xs = <<>> THEN <<>>
    ELSE IF \E i \in 1..Len(seen) : seen[i] = Head(xs)
      THEN Unseen(Tail(xs), seen)
      ELSE <<Head(xs)>> \o Unseen(Tail(xs), Append(seen, Head(xs)))

\* Variant: items already accumulated are skipped.
LoopBodyDedup(response, new_releases_data) ==
    IF response.status # 200
      THEN [ctl |-> "break", data |-> new_releases_data, url |-> None]
    ELSE IF response.body = NotJson
      THEN [ctl |-> "raise", data |-> new_releases_data, url |-> None]
    ELSE [ctl  |-> "continue",
          data |-> new_releases_data \o Unseen(ItemsOf(response.body), new_releases_data),
          url  |-> NextOf(response.body)]

\* Variant: the body is parsed and used before the status is looked at.
LoopBodyParseFirst(response, new_releases_data) ==
    IF response.body = NotJson
      THEN [ctl |-> "raise", data |-> new_releases_data, url |-> None]
    ELSE IF response.status # 200
      THEN [ctl |-> "break", data |-> new_releases_data \o ItemsOf(response.body), url |-> None]
    ELSE [ctl  |-> "continue",
          data |-> new_releases_data \o ItemsOf(response.body),
          url  |-> NextOf(response.body)]

\* Variant: a non-200 status raises (raise_for_status) instead of breaking.
LoopBodyFatal(response, new_releases_data) ==
    IF response.status # 200 \/ response.body = NotJson
      THEN [ctl |-> "raise", data |-> new_releases_data, url |-> None]
    ELSE [ctl  |-> "continue",
          data |-> new_releases_data \o ItemsOf(response.body),
          url  |-> NextOf(response.body)]

\* Variant: a body that is not JSON ends the loop like a non-200 status.
LoopBodySwallow(response, new_releases_data) ==
    IF response.status # 200 \/ response.body = NotJson
      THEN [ctl |-> "break", data |-> new_releases_data, url |-> None]
    ELSE [ctl  |-> "continue",
          data |-> new_releases_data \o ItemsOf(response.body),
          url  |-> NextOf(response.body)]

\* One iteration of the while loop after the GET returned `response`.
LoopBody(response, new_releases_data) ==
    IF response.status # 200
      THEN [ctl |-> "break", data |-> new_releases_data, url |-> None]
    ELSE IF response.body = NotJson
      THEN [ctl |-> "raise", data |-> new_releases_data, url |-> None]
    ELSE [ctl  |-> "continue",
          data |-> new_releases_data \o ItemsOf(response.body),
          url  |-> NextOf(response.body)]

VARIABLES
    pc,                       \* position in main: "token", "fetch", "flatten", "to_csv",
                              \* "upload", "done", or "raised" (an exception left main)
    error,                    \* class of the exception that left main, or "none"
    token_response,           \* main.py:21 response (status 0 before the request)
    token,                    \* main.py:22 token
    request_url,              \* endpoint.py:6 request_url
    new_releases_data,        \* endpoint.py:7 new_releases_data
    gets,                     \* the requests.get calls issued, with their answers
    new_releases,             \* main.py:24 new_releases (empty until assigned)
    flattened_album_details,  \* main.py:31 flattened_album_details
    file,                     \* the local file album_details.csv
    s3_object,                \* the object album_details.csv in the bucket
    s3_before                 \* that object as it was before the run

vars == <<pc, error, token_response, token, request_url, new_releases_data, gets,
          new_releases, flattened_album_details, file, s3_object, s3_before>>

\* ------------------------------------------------------------------ main.py: flatten
\* album.get("artists", [])
ArtistsOf(album) == Get(album, "artists", <<>>)

\* d[k1][k2] raises KeyError
Lacks(d, keys) == \E k \in keys : k \notin DOMAIN d
LacksUrl(d) == "external_urls" \notin DOMAIN d \/ "spotify" \notin DOMAIN d.external_urls

\* Evaluating the dict display of lines 32-40 for (album, artist) raises KeyError.
RowRaises(album, artist) ==
    \/ Lacks(album, {"id", "name", "release_date"}) \/ LacksUrl(album)
    \/ Lacks(artist, {"id", "name"}) \/ LacksUrl(artist)

\* The dict display of lines 32-40.
Row(album, artist) ==
    [album_id           |-> album.id,
     album_name         |-> album.name,
     release_date       |-> album.release_date,
     album_spotify_url  |-> album.external_urls.spotify,
     artist_id          |-> artist.id,
     artist_name        |-> artist.name,
     artist_spotify_url |-> artist.external_urls.spotify]

\* Variant: the artists are visited last to first.
RowsOfReversed(album) ==
    [j \in 1..Len(ArtistsOf(album)) |->
        Row(album, ArtistsOf(album)[Len(ArtistsOf(album)) + 1 - j])]

\* The inner `for artist in album.get("artists", [])`.
RowsOf(album) == [j \in 1..Len(ArtistsOf(album)) |-> Row(album, ArtistsOf(album)[j])]

\* Variant: album["artists"] instead of album.get("artists", []).
FlattenRaisesStrict(albums) ==
    \E i \in 1..Len(albums) :
        \/ "artists" \notin DOMAIN albums[i]
        \/ \E j \in 1..Len(ArtistsOf(albums[i])) : RowRaises(albums[i], ArtistsOf(albums[i])[j])

\* The list comprehension of lines 31-43 raises.
FlattenRaises(albums) ==
    \E i \in 1..Len(albums) :
        \E j \in 1..Len(ArtistsOf(albums[i])) : RowRaises(albums[i], ArtistsOf(albums[i])[j])

\* The list comprehension of lines 31-43: `for album in new_releases`.
RECURSIVE Flatten(_)
Flatten(albums) ==
    IF albums = <<>> THEN <<>> ELSE RowsOf(Head(albums)) \o Flatten(Tail(albums))

\* ------------------------------------------------------------------ main.py: export
\* Key order of the row dicts (insertion order of the dict display).
RowKeys == <<"album_id", "album_name", "release_date", "album_spotify_url",
             "artist_id", "artist_name", "artist_spotify_url">>

\* pd.DataFrame(list of dicts): the columns are the keys of the rows, in order of
\* first appearance; an empty list gives a frame without columns.
DataFrame(rows) ==
    [columns |-> IF rows = <<>> THEN <<>> ELSE RowKeys,
     data    |-> rows]

\* df.to_csv(path, index=False): a header line naming the columns, then one line
\* per row holding the row's values in column order.
ToCsv(df) ==
    <<df.columns>> \o
    [i \in 1..Len(df.data) |-> [c \in 1..Len(df.columns) |-> df.data[i][df.columns[c]]]]

NoFile == [exists |-> FALSE]
FileOf(lines) == [exists |-> TRUE, lines |-> lines]
\* An object left at the key by an earlier run.
OldObject == FileOf(ToCsv(DataFrame(Flatten(<<alOne>>))))

\* ------------------------------------------------------------------ state machine
Init ==
    /\ pc = "token"
    /\ error = "none"
    /\ token_response = [status |-> 0, body |-> EmptyDict]
    /\ token = None
    /\ request_url = None
    /\ new_releases_data = <<>>
    /\ gets = <<>>
    /\ new_releases = <<>>
    /\ flattened_album_details = <<>>
    /\ file = NoFile
    /\ s3_object \in {NoFile, OldObject}
    /\ s3_before = s3_object

Raise(e) == pc' = "raised" /\ error' = e

\* main.py 21-27: the token request, then the call of get_paginated_new_releases
\* (endpoint.py 5-7).
PostToken ==
    /\ pc = "token"
    /\ \E r \in TokenResponses :
        /\ token_response' = r
        /\ IF r.body = NotJson
             THEN /\ Raise("JSONDecodeError")
                  /\ UNCHANGED <<token, request_url>>
             ELSE /\ token' = Get(r.body, "access_token", None)
                  /\ request_url' = URL_NEW_RELEASES
                  /\ pc' = "fetch"
                  /\ UNCHANGED error
    /\ UNCHANGED <<new_releases_data, gets, new_releases, flattened_album_details,
                   file, s3_object, s3_before>>

\* endpoint.py 9-19: one iteration of the while loop, against a catalogue whose
\* records are those of `pool`.
FetchFrom(pool) ==
    /\ pc = "fetch"
    /\ Truthy(request_url)
    /\ \E r \in CatalogResponses(pool, request_url.page, MaxAlbums - Len(new_releases_data)) :
        LET out == LoopBody(r, new_releases_data)
        IN  /\ gets' = Append(gets, [url |-> request_url, bearer |-> token, response |-> r])
            /\ new_releases_data' = out.data
            /\ IF out.ctl = "raise"
                 THEN /\ Raise("JSONDecodeError")
                      /\ UNCHANGED <<request_url, new_releases>>
               ELSE IF out.ctl = "break"
                 THEN /\ pc' = "flatten"
                      /\ new_releases' = out.data
                      /\ UNCHANGED <<request_url, error>>
               ELSE /\ request_url' = out.url
                    /\ UNCHANGED <<pc, error, new_releases>>
    /\ UNCHANGED <<token_response, token, flattened_album_details, file, s3_object, s3_before>>

FetchPage == FetchFrom(AlbumPool)
FetchOpaquePage == FetchFrom(OpaquePool)

\* endpoint.py 9, 21: the loop condition fails and the function returns.
FetchReturn ==
    /\ pc = "fetch"
    /\ ~Truthy(request_url)
    /\ new_releases' = new_releases_data
    /\ pc' = "flatten"
    /\ UNCHANGED <<error, token_response, token, request_url, new_releases_data, gets,
                   flattened_album_details, file, s3_object, s3_before>>

\* Variant: the KeyError is caught and the run goes on without rows.
FlattenStepSwallow ==
    /\ pc = "flatten"
    /\ flattened_album_details' =
          (IF FlattenRaises(new_releases) THEN <<>> ELSE Flatten(new_releases))
    /\ pc' = "to_csv"
    /\ UNCHANGED <<error, token_response, token, request_url, new_releases_data, gets,
                   new_releases, file, s3_object, s3_before>>

\* main.py 31-43
FlattenStep ==
    /\ pc = "flatten"
    /\ IF FlattenRaises(new_releases)
         THEN /\ Raise("KeyError")
              /\ UNCHANGED flattened_album_details
         ELSE /\ flattened_album_details' = Flatten(new_releases)
              /\ pc' = "to_csv"
              /\ UNCHANGED error
    /\ UNCHANGED <<token_response, token, request_url, new_releases_data, gets,
                   new_releases, file, s3_object, s3_before>>

\* main.py 45-48
WriteCsv ==
    /\ pc = "to_csv"
    /\ file' = FileOf(ToCsv(DataFrame(flattened_album_details)))
    /\ pc' = "upload"
    /\ UNCHANGED <<error, token_response, token, request_url, new_releases_data, gets,
                   new_releases, flattened_album_details, s3_object, s3_before>>

\* main.py 51-53: the upload replaces the object at the key.
UploadOk ==
    /\ pc = "upload"
    /\ s3_object' = file
    /\ pc' = "done"
    /\ UNCHANGED <<error, token_response, token, request_url, new_releases_data, gets,
                   new_releases, flattened_album_details, file, s3_before>>

\* main.py 51-52: the client or the upload raises (credentials, network, bucket).
UploadFails ==
    /\ pc = "upload"
    /\ Raise("S3UploadFailedError")
    /\ UNCHANGED <<token_response, token, request_url, new_releases_data, gets,
                   new_releases, flattened_album_details, file, s3_object, s3_before>>

Next ==
    \/ PostToken
    \/ FetchPage
    \/ FetchReturn
    \/ FlattenStep
    \/ WriteCsv
    \/ UploadOk
    \/ UploadFails

Spec == Init /\ [][Next]_vars

\* get_paginated_new_releases on its own: the state at its call (endpoint.py 5-7)
\* with a token obtained, then the loop until the function returns or raises.  The
\* interpreter keeps executing the loop, hence the weak fairness.
InitFetch ==
    /\ pc = "fetch"
    /\ error = "none"
    /\ token_response \in {r \in TokenResponses : r.status = 200 /\ r.body # NotJson}
    /\ token = Get(token_response.body, "access_token", None)
    /\ request_url = URL_NEW_RELEASES
    /\ new_releases_data = <<>>
    /\ gets = <<>>
    /\ new_releases = <<>>
    /\ flattened_album_details = <<>>
    /\ file = NoFile
    /\ s3_object = NoFile
    /\ s3_before = s3_object

NextFetch ==
    \/ FetchOpaquePage
    \/ FetchReturn

FetchSpec == InitFetch /\ [][NextFetch]_vars /\ WF_vars(NextFetch)

\* ================================================================== properties
\* What the catalogue sent, read off the request log (not through the code's
\* accessors): the item list and the next link of a logged response.
PageItems(r) ==
    IF "albums" \in DOMAIN r.body /\ "items" \in DOMAIN r.body.albums
      THEN r.body.albums.items ELSE <<>>
HasNextLink(r) ==
    /\ "albums" \in DOMAIN r.body
    /\ "next" \in DOMAIN r.body.albums
    /\ r.body.albums.next \notin {None, EmptyStr}
NextNullOrAbsent(r) ==
    \/ "albums" \notin DOMAIN r.body
    \/ "next" \notin DOMAIN r.body.albums
    \/ r.body.albums.next = None
Ok200(r) == r.status = 200 /\ r.body # NotJson

\* The items of the first k logged pages, concatenated.
RECURSIVE ConcatPages(_, _)
ConcatPages(log, k) ==
    IF k = 0 THEN <<>> ELSE ConcatPages(log, k - 1) \o PageItems(log[k].response)

\* get_paginated_new_releases has returned to main.
Returned == pc \in {"flatten", "to_csv", "upload", "done"}
            \/ (pc = "raised" /\ error \in {"KeyError", "S3UploadFailedError"})
\* An exception left get_paginated_new_releases.
FetchRaised == pc = "raised" /\ error = "JSONDecodeError" /\ gets # <<>>

AllPagesOk == gets # <<>> /\ \A i \in 1..Len(gets) : Ok200(gets[i].response)

\* C1 (state part): while every GET answered 200, page i of the chain was requested
\* by GET number i and by no other, the accumulator is the concatenation of the
\* pages' items in page order and within-page order, duplicates kept; once the last
\* page's next is null or absent no further GET follows, and the value returned is
\* that concatenation with no page of the chain left unfetched.
C1_Pagination ==
    AllPagesOk =>
        /\ \A i \in 1..Len(gets) : gets[i].url = Url(i)
        /\ \A i \in 1..(Len(gets) - 1) : HasNextLink(gets[i].response)
        /\ new_releases_data = ConcatPages(gets, Len(gets))
        /\ ~FetchRaised
        /\ NextNullOrAbsent(gets[Len(gets)].response) /\ pc = "fetch" => ~Truthy(request_url)
        /\ Returned => /\ new_releases = ConcatPages(gets, Len(gets))
                       /\ ~HasNextLink(gets[Len(gets)].response)

\* C1: for every finite chain of pages that all answer 200, the function terminates
\* after one GET per page and returns the concatenation of the pages' items in order,
\* without deduplication.
C1_PaginationTerminates ==
    /\ []C1_Pagination
    /\ (pc = "fetch") ~> (pc # "fetch")

\* C1 witness: two pages fetched, both 200, the same album on both, returned twice.
C1_Witness ==
    /\ Returned /\ AllPagesOk /\ Len(gets) = 2
    /\ PageItems(gets[1].response) = <<alTwo>>
    /\ PageItems(gets[2].response) = <<alTwo>>
    /\ new_releases = <<alTwo, alTwo>>

\* C2: a non-200 answer to the GET of page k is the last GET of the run; no
\* exception leaves the function; it returns the items of pages 1..k-1.
C2_ShortCircuit ==
    \A k \in 1..Len(gets) :
        gets[k].response.status # 200 =>
            /\ k = Len(gets)
            /\ \A i \in 1..Len(gets) : gets[i].url = Url(i)
            /\ ~FetchRaised
            /\ Returned
            /\ new_releases = ConcatPages(gets, k - 1)

\* C2 witness: page 1 delivered an album, page 2 answered non-200 with a body
\* that carries items, and page 1's album alone was returned.
C2_Witness ==
    /\ Len(gets) = 2
    /\ gets[2].response.status # 200
    /\ PageItems(gets[2].response) # <<>>
    /\ new_releases = <<alOne>>


\* ------------------------------------------------------------------ flatten
\* Required fields, read off the records themselves.
AlbumLacksField(al) ==
    \/ \E k \in {"id", "name", "release_date", "external_urls"} : k \notin DOMAIN al
    \/ ("external_urls" \in DOMAIN al /\ "spotify" \notin DOMAIN al.external_urls)
ArtistLacksField(ar) ==
    \/ \E k \in {"id", "name", "external_urls"} : k \notin DOMAIN ar
    \/ ("external_urls" \in DOMAIN ar /\ "spotify" \notin DOMAIN ar.external_urls)
NumArtists(al) == IF "artists" \in DOMAIN al THEN Len(al.artists) ELSE 0
SomeArtistLacksField(al) == \E j \in 1..NumArtists(al) : ArtistLacksField(al.artists[j])
AllFieldsPresent(albums) ==
    \A i \in 1..Len(albums) : ~AlbumLacksField(albums[i]) /\ ~SomeArtistLacksField(albums[i])

\* Number of artists embedded in the first n albums.
RECURSIVE SumArtists(_, _)
SumArtists(albums, n) ==
    IF n = 0 THEN 0 ELSE SumArtists(albums, n - 1) + NumArtists(albums[n])

\* The flattening step has been executed (it returned or raised).
FlattenReturned == pc \in {"to_csv", "upload", "done"}
                   \/ (pc = "raised" /\ error = "S3UploadFailedError")
FlattenRan == FlattenReturned \/ (pc = "raised" /\ error = "KeyError")
NothingExported == file = NoFile /\ s3_object = s3_before

\* C3: when every required field is present, flattening raises nothing and yields
\* as many rows as there are embedded artists over all albums; an album with an
\* empty or absent artist list adds none.
C3_FlattenCardinality ==
    (FlattenRan /\ AllFieldsPresent(new_releases)) =>
        /\ FlattenReturned
        /\ Len(flattened_album_details) = SumArtists(new_releases, Len(new_releases))

\* C3 witness: an album with two artists and one without the artists key give two rows.
C3_Witness ==
    /\ FlattenReturned
    /\ new_releases = <<alTwo, alNoArtistsKey>>
    /\ Len(flattened_album_details) = 2

\* C4: the row of the j-th artist of the i-th album stands at position
\* (artists of albums 1..i-1) + j and carries that album's four fields and that
\* artist's three fields.
C4_FlattenOrderAndFields ==
    FlattenReturned =>
        /\ Len(flattened_album_details) = SumArtists(new_releases, Len(new_releases))
        /\ \A i \in 1..Len(new_releases) :
            \A j \in 1..NumArtists(new_releases[i]) :
                LET al  == new_releases[i]
                    ar  == al.artists[j]
                    row == flattened_album_details[SumArtists(new_releases, i - 1) + j]
                IN  /\ row.album_id = al.id
                    /\ row.album_name = al.name
                    /\ row.release_date = al.release_date
                    /\ row.album_spotify_url = al.external_urls.spotify
                    /\ row.artist_id = ar.id
                    /\ row.artist_name = ar.name
                    /\ row.artist_spotify_url = ar.external_urls.spotify
                    /\ DOMAIN row = {"album_id", "album_name", "release_date",
                                     "album_spotify_url", "artist_id", "artist_name",
                                     "artist_spotify_url"}

\* C4 witness: two albums with one and two artists give three rows.
C4_Witness ==
    /\ pc = "done"
    /\ new_releases = <<alOne, alTwo>>
    /\ Len(flattened_album_details) = 3

\* ------------------------------------------------------------------ export
SevenColumns == <<"album_id", "album_name", "release_date", "album_spotify_url",
                  "artist_id", "artist_name", "artist_spotify_url">>

\* C5: the CSV written has a header naming the seven columns in order, then one
\* data line per output row, in order, for every number N >= 0 of rows.
C5_CsvHeaderAndRows ==
    file # NoFile =>
        /\ Len(file.lines) = 1 + Len(flattened_album_details)
        /\ file.lines[1] = SevenColumns
        /\ \A n \in 1..Len(flattened_album_details) :
              file.lines[n + 1] = [c \in 1..7 |-> flattened_album_details[n][SevenColumns[c]]]
        /\ pc = "done" => s3_object = file

\* ------------------------------------------------------------------ failures
AuthFailed == token_response.status \notin {0, 200}

\* C6: after a token request that did not succeed, the run is over with an error,
\* no catalogue GET was issued, no CSV was written and nothing was uploaded.
C6_AuthFailureFatal ==
    AuthFailed => gets = <<>> /\ NothingExported /\ pc # "done"

\* C7: a non-200 answer during pagination does not end the run: what reaches the
\* flatten step is the albums of the pages before it, the run stops afterwards only
\* on a lookup error of the flatten step or a failed upload, the CSV written is the
\* one of those albums' rows, and on completion it is the object at the key,
\* whatever was there before.
C7_PartialDataExported ==
    \A k \in 1..Len(gets) :
        gets[k].response.status # 200 =>
            LET partial == ConcatPages(gets, k - 1)
                csv == FileOf(ToCsv(DataFrame(Flatten(partial))))
            IN  /\ new_releases = partial
                /\ Returned
                /\ pc = "raised" /\ error = "KeyError" => FlattenRaises(partial)
                /\ file # NoFile => file = csv
                /\ pc = "done" => s3_object = csv

\* C7 witness: page 2 answered non-200, the run completed and replaced the object
\* that was at the key by the CSV of page 1's rows.
C7_Witness ==
    /\ Len(gets) = 2
    /\ gets[2].response.status # 200
    /\ pc = "done"
    /\ s3_before = OldObject
    /\ s3_object # s3_before
    /\ Len(s3_object.lines) = 3

FirstPageEmpty ==
    /\ gets # <<>>
    /\ Ok200(gets[1].response)
    /\ PageItems(gets[1].response) = <<>>

\* C8 as stated: after a first page with status 200 and no items, no second GET is
\* issued and the result is empty.
C8_EmptyFirstPageEndsLoop ==
    FirstPageEmpty => Len(gets) = 1 /\ new_releases_data = <<>> /\ new_releases = <<>>

\* C8 amended: after a first page with status 200 and no items, the loop follows
\* the page's next link like after any other page: with next null, absent or empty
\* no second GET is issued and the result is empty; with a next link the loop goes
\* on with a GET of that link.
C8_EmptyFirstPageFollowsNext ==
    FirstPageEmpty =>
        IF HasNextLink(gets[1].response)
          THEN \/ Len(gets) = 1 /\ pc = "fetch" /\ request_url = gets[1].response.body.albums.next
               \/ Len(gets) > 1 /\ gets[2].url = gets[1].response.body.albums.next
          ELSE /\ Len(gets) = 1
               /\ new_releases_data = <<>> /\ new_releases = <<>>
               /\ pc = "fetch" => ~Truthy(request_url)

\* C8 witness: the empty first page had no next link and the function returned.
C8_Witness ==
    /\ FirstPageEmpty
    /\ ~HasNextLink(gets[1].response)
    /\ "albums" \in DOMAIN gets[1].response.body
    /\ "items" \in DOMAIN gets[1].response.body.albums
    /\ Returned
    /\ new_releases = <<>>

SomeRecordLacksField(albums) ==
    \E i \in 1..Len(albums) : AlbumLacksField(albums[i]) \/ SomeArtistLacksField(albums[i])
SomeRowLacksField(albums) ==
    \E i \in 1..Len(albums) :
        /\ NumArtists(albums[i]) >= 1
        /\ AlbumLacksField(albums[i]) \/ SomeArtistLacksField(albums[i])

\* C9 as stated: whenever a fetched album or an embedded artist lacks a required
\* field, the flatten step fails with a lookup error and nothing is exported.
C9_MissingFieldFatal ==
    (FlattenRan /\ SomeRecordLacksField(new_releases)) =>
        pc = "raised" /\ error = "KeyError" /\ NothingExported

\* C9 amended: the flatten step fails with a lookup error, and nothing is exported,
\* exactly when a required field is missing from an album that has at least one
\* artist or from one of its artists; an album without artists is never looked into.
C9_MissingFieldOfARowFatal ==
    FlattenRan =>
        IF SomeRowLacksField(new_releases)
          THEN pc = "raised" /\ error = "KeyError" /\ NothingExported
                /\ flattened_album_details = <<>>
          ELSE FlattenReturned

\* C9 witness: an album whose second artist has no name stopped the run.
C9_Witness ==
    /\ pc = "raised" /\ error = "KeyError"
    /\ new_releases = <<alOne, alBadArtist>>
    /\ NothingExported

\* C10: a 200 answer whose body is not JSON ends the run with the decoding error:
\* the items accumulated so far are not handed to main, nothing is flattened,
\* written or uploaded; a non-200 answer whose body is not JSON is not parsed and
\* the function returns the items accumulated so far.
C10_MalformedBody ==
    \A k \in 1..Len(gets) :
        gets[k].response.body = NotJson =>
            /\ k = Len(gets)
            /\ new_releases_data = ConcatPages(gets, k - 1)
            /\ IF gets[k].response.status = 200
                 THEN /\ pc = "raised" /\ error = "JSONDecodeError"
                      /\ new_releases = <<>>
                      /\ flattened_album_details = <<>>
                      /\ NothingExported
                 ELSE /\ ~FetchRaised
                      /\ Returned
                      /\ new_releases = new_releases_data

\* C10 witness: page 1 delivered an album, page 2 answered 200 with a body that is
\* not JSON, and the run ended with the album accumulated but never returned.
C10_Witness ==
    /\ Len(gets) = 2
    /\ gets[2].response = [status |-> 200, body |-> NotJson]
    /\ new_releases_data = <<alTwo>>
    /\ new_releases = <<>>
    /\ pc = "raised"

====
